---- MODULE Spec2Model ----
(***************************************************************************)
(* Model of src/src/options.rs: the FilterBuilder / OptionsBuilder pair    *)
(* and format_with_options, which appends the built Options to a base URL. *)
(*                                                                         *)
(* Strings are sequences of one-character strings, so that appending,      *)
(* percent-encoding and decimal formatting are computed character by       *)
(* character.  Option<T> is a record: None, or Some(v).                    *)
(***************************************************************************)
EXTENDS Integers, Sequences, FiniteSets, TLC

VARIABLES
    pc,           \* "building" | "built" | "formatted": position of the caller
    builder,      \* the OptionsBuilder being chained
    options,      \* Option<Options>: Some(result of build()) once built
    url,          \* the base URL handed to format_with_options
    arg,          \* the Option<Options> handed to format_with_options
    result,       \* the String format_with_options returned
    last,         \* per field, the argument of the most recent call that set it
    overwrote,    \* some call replaced an earlier, different argument
    filterCalled  \* filter() has been called (with any callback)

vars == <<pc, builder, options, url, arg, result, last, overwrote, filterCalled>>

\* ------------------------------------------------------------------ Option
None == [tag |-> "None"]
Some(v) == [tag |-> "Some", val |-> v]
IsSome(o) == o.tag = "Some"

\* ------------------------------------------------------------------ inputs
\* Bound: the most setters one filter() callback applies.
MaxSetters == 2

TextDate == <<"2","0","1","7","-","0","6","-","0","6">>
TextSpecial == <<"R","&","B","=","%">>
Texts == {TextDate, TextSpecial}

UrlKey == <<"h","t","t","p",":","/","/","x","/","a","?","a","p","i","k","e","y","=","K">>
UrlBare == <<"h","t","t","p",":","/","/","x","/","a">>
UrlPaged == <<"h","t","t","p",":","/","/","x","/","a","?","p","a","g","e","=","9","&","o","r","d","e","r","=","a","s","c">>
Urls == {UrlKey, UrlBare, UrlPaged}

PagingInputs == {<<2, 25>>, <<0, 0>>, <<1, 5>>}

FilterFields == {"artist_name", "min_date", "max_date", "location"}

SetterCalls == [setter : FilterFields, value : Texts]

\* A callback handed to filter(): the setters it applies, in order.
Callbacks == UNION {[1..n -> SetterCalls] : n \in 0..MaxSetters}

\* ------------------------------------------------------------------ Sort
\* pub enum Sort { ASC, DESC }
Sort == {"ASC", "DESC"}

\* ------------------------------------------------------------------ FilterBuilder
FilterBuilder_new ==
    [empty |-> TRUE, artist_name |-> None, min_date |-> None,
     max_date |-> None, location |-> None]

FilterBuilder_artist_name(self, name) ==
    [self EXCEPT !.empty = FALSE, !.artist_name = Some(name)]

FilterBuilder_min_date_keepFirst(self, min_date) ==
    IF IsSome(self.min_date)
    THEN [self EXCEPT !.empty = FALSE]
    ELSE [self EXCEPT !.empty = FALSE, !.min_date = Some(min_date)]

FilterBuilder_min_date(self, min_date) ==
    [self EXCEPT !.empty = FALSE, !.min_date = Some(min_date)]

FilterBuilder_max_date_clearsMin(self, max_date) ==
    [self EXCEPT !.empty = FALSE, !.max_date = Some(max_date), !.min_date = None]

FilterBuilder_max_date(self, max_date) ==
    [self EXCEPT !.empty = FALSE, !.max_date = Some(max_date)]

FilterBuilder_location_keepsEmpty(self, location) ==
    [self EXCEPT !.location = Some(location)]

FilterBuilder_location(self, location) ==
    [self EXCEPT !.empty = FALSE, !.location = Some(location)]

\* Filter { artist_name, min_date, max_date, location }
FilterBuilder_build(self) ==
    IF self.empty
    THEN None
    ELSE Some([max_date |-> self.max_date, min_date |-> self.min_date,
               artist_name |-> self.artist_name, location |-> self.location])

\* One setter invoked by a callback on the &mut FilterBuilder.
ApplySetter(fb, call) ==
    CASE call.setter = "artist_name" -> FilterBuilder_artist_name(fb, call.value)
      [] call.setter = "min_date" -> FilterBuilder_min_date(fb, call.value)
      [] call.setter = "max_date" -> FilterBuilder_max_date(fb, call.value)
      [] call.setter = "location" -> FilterBuilder_location(fb, call.value)

\* The callback run on the FilterBuilder: its setters applied in order.
RECURSIVE ApplyCallback(_, _)
ApplyCallback(fb, cb) ==
    IF cb = <<>> THEN fb
    ELSE ApplyCallback(ApplySetter(fb, Head(cb)), Tail(cb))

\* ------------------------------------------------------------------ OptionsBuilder
OptionsBuilder_new ==
    [paging |-> None, filter |-> FilterBuilder_new, sort |-> None]

OptionsBuilder_paging_swapped(self, page, per_page) ==
    [self EXCEPT !.paging = Some([per_page |-> page, page |-> per_page])]

OptionsBuilder_paging(self, page, per_page) ==
    [self EXCEPT !.paging = Some([per_page |-> per_page, page |-> page])]

OptionsBuilder_sort(self, sort) ==
    [self EXCEPT !.sort = Some(sort)]

OptionsBuilder_filter(self, filter) ==
    [self EXCEPT !.filter = ApplyCallback(self.filter, filter)]

OptionsBuilder_build(self) ==
    [paging |-> self.paging, filter |-> FilterBuilder_build(self.filter),
     sort |-> self.sort]

\* ------------------------------------------------------------------ util::encode
Digits == {"0","1","2","3","4","5","6","7","8","9"}
Letters ==
    {"a","b","c","d","e","f","g","h","i","j","k","l","m",
     "n","o","p","q","r","s","t","u","v","w","x","y","z",
     "A","B","C","D","E","F","G","H","I","J","K","L","M",
     "N","O","P","Q","R","S","T","U","V","W","X","Y","Z"}
AlphaNumeric == Digits \cup Letters

\* ASCII codes of the punctuation the inputs use.
AsciiCode ==
    (" " :> 32) @@ ("%" :> 37) @@ ("&" :> 38) @@ ("-" :> 45) @@ ("." :> 46) @@
    ("/" :> 47) @@ (":" :> 58) @@ ("=" :> 61) @@ ("?" :> 63) @@ ("_" :> 95)

HexDigits == <<"0","1","2","3","4","5","6","7","8","9","A","B","C","D","E","F">>

\* One byte as its %XX escape, upper-case hexadecimal.
PercentEscape(c) ==
    <<"%", HexDigits[(AsciiCode[c] \div 16) + 1], HexDigits[(AsciiCode[c] % 16) + 1]>>

\* crate::util::encode: every character that is not an ASCII letter or digit
\* becomes its %XX escape ("2017-06-06" -> "2017%2D06%2D06").
RECURSIVE encode(_)
encode(s) ==
    IF s = <<>> THEN <<>>
    ELSE (IF Head(s) \in AlphaNumeric THEN <<Head(s)>> ELSE PercentEscape(Head(s)))
         \o encode(Tail(s))

\* ------------------------------------------------------------------ format!
DigitChars == <<"0","1","2","3","4","5","6","7","8","9">>

\* Display of a u64: its decimal digits, no sign, no padding.
RECURSIVE Decimal(_)
Decimal(n) ==
    IF n < 10 THEN <<DigitChars[n + 1]>>
    ELSE Decimal(n \div 10) \o <<DigitChars[(n % 10) + 1]>>

KeyMinDate == <<"&","m","i","n","_","d","a","t","e","=">>
KeyMaxDate == <<"&","m","a","x","_","d","a","t","e","=">>
KeyArtistName == <<"&","a","r","t","i","s","t","_","n","a","m","e","=">>
KeyLocation == <<"&","l","o","c","a","t","i","o","n","=">>
KeyPage == <<"&","p","a","g","e","=">>
KeyPerPage == <<"&","p","e","r","_","p","a","g","e","=">>
KeyOrder == <<"&","o","r","d","e","r","=">>
TokenAsc == <<"a","s","c">>
TokenDesc == <<"d","e","s","c">>

\* ------------------------------------------------------------------ format_with_options
\* format!("{}&key={}", new_url, encode(&value)) when the field is Some.
AppendEncoded(new_url, key, field) ==
    IF IsSome(field) THEN new_url \o key \o encode(field.val) ELSE new_url

AppendRaw(new_url, key, field) ==
    IF IsSome(field) THEN new_url \o key \o field.val ELSE new_url

AppendFilter_structOrder(new_url, filter) ==
    IF IsSome(filter)
    THEN AppendEncoded(
           AppendEncoded(
             AppendEncoded(
               AppendEncoded(new_url, KeyArtistName, filter.val.artist_name),
               KeyMinDate, filter.val.min_date),
             KeyMaxDate, filter.val.max_date),
           KeyLocation, filter.val.location)
    ELSE new_url

AppendFilter_rawLocation(new_url, filter) ==
    IF IsSome(filter)
    THEN AppendRaw(
           AppendEncoded(
             AppendEncoded(
               AppendEncoded(new_url, KeyMinDate, filter.val.min_date),
               KeyMaxDate, filter.val.max_date),
             KeyArtistName, filter.val.artist_name),
           KeyLocation, filter.val.location)
    ELSE new_url

\* The filtering block: min_date, max_date, artist_name, location.
AppendFilter(new_url, filter) ==
    IF IsSome(filter)
    THEN AppendEncoded(
           AppendEncoded(
             AppendEncoded(
               AppendEncoded(new_url, KeyMinDate, filter.val.min_date),
               KeyMaxDate, filter.val.max_date),
             KeyArtistName, filter.val.artist_name),
           KeyLocation, filter.val.location)
    ELSE new_url

AppendPaging_questionMark(new_url, paging) ==
    IF IsSome(paging)
    THEN (IF \E i \in 1..Len(new_url) : new_url[i] = "?"
          THEN new_url \o KeyPage
          ELSE new_url \o <<"?">> \o Tail(KeyPage))
         \o Decimal(paging.val.page)
         \o KeyPerPage \o Decimal(paging.val.per_page)
    ELSE new_url

\* The pagination block: page, then per_page.
AppendPaging(new_url, paging) ==
    IF IsSome(paging)
    THEN (new_url \o KeyPage \o Decimal(paging.val.page))
         \o KeyPerPage \o Decimal(paging.val.per_page)
    ELSE new_url

AppendSort_defaultAsc(new_url, sort) ==
    IF IsSome(sort)
    THEN new_url \o KeyOrder \o (IF sort.val = "ASC" THEN TokenAsc ELSE TokenDesc)
    ELSE new_url \o KeyOrder \o TokenAsc

AppendSort_swapped(new_url, sort) ==
    IF IsSome(sort)
    THEN new_url \o KeyOrder \o (IF sort.val = "ASC" THEN TokenDesc ELSE TokenAsc)
    ELSE new_url

\* The sorting block.
AppendSort(new_url, sort) ==
    IF IsSome(sort)
    THEN new_url \o KeyOrder \o (IF sort.val = "ASC" THEN TokenAsc ELSE TokenDesc)
    ELSE new_url

format_with_options_noneEmpty(base, opts) ==
    IF IsSome(opts)
    THEN AppendSort(AppendPaging(AppendFilter(base, opts.val.filter),
                                 opts.val.paging),
                    opts.val.sort)
    ELSE <<>>

format_with_options(base, opts) ==
    IF IsSome(opts)
    THEN AppendSort(AppendPaging(AppendFilter(base, opts.val.filter),
                                 opts.val.paging),
                    opts.val.sort)
    ELSE base

\* ------------------------------------------------------------------ record of the calls
NoCalls ==
    [artist_name |-> None, min_date |-> None, max_date |-> None,
     location |-> None, paging |-> None, sort |-> None]

\* The argument of the last call of setter f in callback cb, if any.
LastIn(cb, f) ==
    LET idx == {i \in 1..Len(cb) : cb[i].setter = f}
    IN IF idx = {} THEN None
       ELSE Some(cb[CHOOSE i \in idx : \A j \in idx : j <= i].value)

LastAfter(prev, cb) ==
    [f \in DOMAIN prev |->
        IF f \in FilterFields /\ IsSome(LastIn(cb, f)) THEN LastIn(cb, f) ELSE prev[f]]

\* Some call of cb gives a field an argument other than the one it was last given.
Overwrites(prev, cb) ==
    \E i \in 1..Len(cb) :
        LET before == LastAfter(prev, SubSeq(cb, 1, i - 1))[cb[i].setter]
        IN IsSome(before) /\ before.val # cb[i].value

\* ------------------------------------------------------------------ the caller
Init ==
    /\ pc = "building"
    /\ builder = OptionsBuilder_new
    /\ options = None
    /\ url = <<>>
    /\ arg = None
    /\ result = <<>>
    /\ last = NoCalls
    /\ overwrote = FALSE
    /\ filterCalled = FALSE

\* builder = builder.filter(|f| { ... })
Filter(cb) ==
    /\ pc = "building"
    /\ builder' = OptionsBuilder_filter(builder, cb)
    /\ last' = LastAfter(last, cb)
    /\ overwrote' = (overwrote \/ Overwrites(last, cb))
    /\ filterCalled' = TRUE
    /\ UNCHANGED <<pc, options, url, arg, result>>

\* builder = builder.paging(page, per_page)
Paging(page, per_page) ==
    /\ pc = "building"
    /\ builder' = OptionsBuilder_paging(builder, page, per_page)
    /\ last' = [last EXCEPT !.paging = Some([page |-> page, per_page |-> per_page])]
    /\ overwrote' = (overwrote \/ (IsSome(last.paging) /\ last'.paging # last.paging))
    /\ UNCHANGED <<pc, options, url, arg, result, filterCalled>>

\* builder = builder.sort(sort)
SortBy(sort) ==
    /\ pc = "building"
    /\ builder' = OptionsBuilder_sort(builder, sort)
    /\ last' = [last EXCEPT !.sort = Some(sort)]
    /\ overwrote' = (overwrote \/ (IsSome(last.sort) /\ last.sort.val # sort))
    /\ UNCHANGED <<pc, options, url, arg, result, filterCalled>>

\* let options = builder.build()   (consumes the builder)
Build ==
    /\ pc = "building"
    /\ options' = Some(OptionsBuilder_build(builder))
    /\ pc' = "built"
    /\ UNCHANGED <<builder, url, arg, result, last, overwrote, filterCalled>>

\* format_with_options(&u, Some(options))
FormatSome(u) ==
    /\ pc = "built"
    /\ url' = u
    /\ arg' = options
    /\ result' = format_with_options(u, options)
    /\ pc' = "formatted"
    /\ UNCHANGED <<builder, options, last, overwrote, filterCalled>>

\* format_with_options(&u, None)
FormatNone(u) ==
    /\ pc \in {"building", "built"}
    /\ url' = u
    /\ arg' = None
    /\ result' = format_with_options(u, None)
    /\ pc' = "formatted"
    /\ UNCHANGED <<builder, options, last, overwrote, filterCalled>>

Next ==
    \/ \E cb \in Callbacks : Filter(cb)
    \/ \E p \in PagingInputs : Paging(p[1], p[2])
    \/ \E s \in Sort : SortBy(s)
    \/ Build
    \/ \E u \in Urls : FormatSome(u)
    \/ \E u \in Urls : FormatNone(u)

Spec == Init /\ [][Next]_vars

\* ------------------------------------------------------------------ reading the output
IsPrefix(p, s) == Len(p) <= Len(s) /\ SubSeq(s, 1, Len(p)) = p

\* What format_with_options wrote after the base URL.
Appended == SubSeq(result, Len(url) + 1, Len(result))

\* Position of the first c in s, 0 when there is none.
IndexOf(s, c) ==
    LET at == {i \in 1..Len(s) : s[i] = c}
    IN IF at = {} THEN 0 ELSE CHOOSE i \in at : \A j \in at : i <= j

Count(s, c) == Cardinality({i \in 1..Len(s) : s[i] = c})

\* s, which starts with "&", cut at every "&": the text between the separators.
RECURSIVE SplitAmp(_)
SplitAmp(s) ==
    IF s = <<>> THEN <<>>
    ELSE LET rest == Tail(s)
             k == IndexOf(rest, "&")
         IN IF k = 0 THEN <<rest>>
            ELSE <<SubSeq(rest, 1, k - 1)>> \o SplitAmp(SubSeq(rest, k, Len(rest)))

Segments == SplitAmp(Appended)
SegName(seg) == SubSeq(seg, 1, IndexOf(seg, "=") - 1)
SegValue(seg) == SubSeq(seg, IndexOf(seg, "=") + 1, Len(seg))

\* "&name=" without its separators.
NameOf(key) == SubSeq(key, 2, Len(key) - 1)

KeySequence ==
    <<KeyMinDate, KeyMaxDate, KeyArtistName, KeyLocation, KeyPage, KeyPerPage, KeyOrder>>
KnownNames == {NameOf(KeySequence[i]) : i \in 1..Len(KeySequence)}
Rank(name) == CHOOSE i \in 1..Len(KeySequence) : NameOf(KeySequence[i]) = name

\* The output is the base URL followed by "&name=value" segments with known names.
WellFormed ==
    /\ IsPrefix(url, result)
    /\ Appended = <<>> \/ Appended[1] = "&"
    /\ \A i \in 1..Len(Segments) :
          /\ IndexOf(Segments[i], "=") > 1
          /\ SegName(Segments[i]) \in KnownNames

\* The positions of the segments called name.
Places(key) == {i \in 1..Len(Segments) : SegName(Segments[i]) = NameOf(key)}

\* Exactly one segment is called name, and its value is v.
EmitsOnce(key, v) ==
    /\ Cardinality(Places(key)) = 1
    /\ \A i \in Places(key) : SegValue(Segments[i]) = v

FormattedSome == pc = "formatted" /\ IsSome(arg)

FilterKey(f) ==
    CASE f = "min_date" -> KeyMinDate
      [] f = "max_date" -> KeyMaxDate
      [] f = "artist_name" -> KeyArtistName
      [] f = "location" -> KeyLocation

\* Field f of the filter of the Options handed to format_with_options.
ArgFilter(f) == IF IsSome(arg.val.filter) THEN arg.val.filter.val[f] ELSE None

\* The names format_with_options has to write for the Options it was handed.
ArgNames ==
    {NameOf(FilterKey(f)) : f \in {g \in FilterFields : IsSome(ArgFilter(g))}}
    \cup (IF IsSome(arg.val.paging) THEN {NameOf(KeyPage), NameOf(KeyPerPage)} ELSE {})
    \cup (IF IsSome(arg.val.sort) THEN {NameOf(KeyOrder)} ELSE {})

SortToken(s) == IF s = "ASC" THEN TokenAsc ELSE TokenDesc

AllSet ==
    /\ \A f \in FilterFields : IsSome(last[f])
    /\ IsSome(last.paging)
    /\ IsSome(last.sort)

\* ------------------------------------------------------------------ claims

\* C1: format_with_options(url, None) returns url itself, for every base URL:
\* nothing is appended, removed or re-encoded.
C1_NoneIsIdentity ==
    (pc = "formatted" /\ ~IsSome(arg)) => result = url

C1_Witness ==
    pc = "formatted" /\ ~IsSome(arg) /\ url = UrlPaged /\ IsSome(options)

\* C2: Options built with no paging(), no sort() and no filter setter ever
\* invoked (filter() itself may have been called with callbacks that invoke no
\* setter) leave the URL exactly as it was: no "&" or other separator is written.
C2_EmptyOptionsIsIdentity ==
    (FormattedSome /\ last = NoCalls) => result = url

C2_Witness ==
    FormattedSome /\ last = NoCalls /\ filterCalled /\ url = UrlBare

\* C3: the keys format_with_options writes are those of the fields that are
\* set, in the relative order min_date, max_date, artist_name, location, page,
\* per_page, order, whatever the order of the builder calls; with all seven
\* set the output is the URL followed by exactly the seven pairs in that order.
C3_FixedKeyOrder ==
    FormattedSome =>
        /\ WellFormed
        /\ {SegName(Segments[i]) : i \in 1..Len(Segments)} = ArgNames
        /\ \A i, j \in 1..Len(Segments) :
              i < j => Rank(SegName(Segments[i])) < Rank(SegName(Segments[j]))
        /\ AllSet =>
              result = url
                  \o KeyMinDate \o encode(last.min_date.val)
                  \o KeyMaxDate \o encode(last.max_date.val)
                  \o KeyArtistName \o encode(last.artist_name.val)
                  \o KeyLocation \o encode(last.location.val)
                  \o KeyPage \o Decimal(last.paging.val.page)
                  \o KeyPerPage \o Decimal(last.paging.val.per_page)
                  \o KeyOrder \o SortToken(last.sort.val)

C3_Witness ==
    FormattedSome /\ AllSet /\ Len(Segments) = Len(KeySequence)

\* C4: the empty flag of the FilterBuilder is true exactly when its four
\* fields are absent, so build() yields an absent filter if and only if no
\* setter was ever called, and never a present Filter with four absent fields.
C4_EmptyFlag ==
    /\ builder.filter.empty <=> \A f \in FilterFields : ~IsSome(builder.filter[f])
    /\ IsSome(options) =>
          /\ ~IsSome(options.val.filter) <=> \A f \in FilterFields : ~IsSome(last[f])
          /\ IsSome(options.val.filter) =>
                \E f \in FilterFields : IsSome(options.val.filter.val[f])

C4_Witness ==
    /\ pc = "built"
    /\ IsSome(options.val.filter)
    /\ IsSome(options.val.filter.val.location)
    /\ \A f \in FilterFields \ {"location"} : ~IsSome(options.val.filter.val[f])

\* C5: last write wins: when a setter (a filter setter, paging or sort) is
\* invoked more than once before build(), the built Options holds the value of
\* the last invocation for that field, and format_with_options writes that key
\* exactly once, with the last value.
C5_LastWriteWins ==
    /\ IsSome(options) =>
          /\ options.val.paging = last.paging
          /\ options.val.sort = last.sort
          /\ \A f \in FilterFields :
                (IF IsSome(options.val.filter) THEN options.val.filter.val[f] ELSE None)
                    = last[f]
    /\ FormattedSome =>
          /\ WellFormed
          /\ \A f \in FilterFields :
                IF IsSome(last[f])
                THEN EmitsOnce(FilterKey(f), encode(last[f].val))
                ELSE Places(FilterKey(f)) = {}
          /\ IF IsSome(last.paging)
             THEN /\ EmitsOnce(KeyPage, Decimal(last.paging.val.page))
                  /\ EmitsOnce(KeyPerPage, Decimal(last.paging.val.per_page))
             ELSE Places(KeyPage) \cup Places(KeyPerPage) = {}
          /\ IF IsSome(last.sort)
             THEN EmitsOnce(KeyOrder, SortToken(last.sort.val))
             ELSE Places(KeyOrder) = {}

C5_Witness ==
    FormattedSome /\ overwrote /\ last.min_date = Some(TextSpecial)
        /\ ~IsSome(last.paging) /\ ~IsSome(last.sort)
        /\ \A f \in FilterFields \ {"min_date"} : ~IsSome(last[f])

\* C6: paging is all or nothing: the builder and the Options hold either no
\* paging or the page and per_page of one and the same (the last) paging()
\* call; the output has "&page=<page>" directly followed by
\* "&per_page=<per_page>", both in plain decimal, or neither; 0 is accepted.
C6_PagingTogether ==
    /\ builder.paging = last.paging
    /\ IsSome(options) => options.val.paging = last.paging
    /\ FormattedSome =>
          /\ WellFormed
          /\ IF IsSome(last.paging)
             THEN /\ Cardinality(Places(KeyPage)) = 1
                  /\ Cardinality(Places(KeyPerPage)) = 1
                  /\ \A i \in Places(KeyPage) :
                        /\ i + 1 \in Places(KeyPerPage)
                        /\ Segments[i] =
                              NameOf(KeyPage) \o <<"=">> \o Decimal(last.paging.val.page)
                        /\ Segments[i + 1] =
                              NameOf(KeyPerPage) \o <<"=">>
                                  \o Decimal(last.paging.val.per_page)
             ELSE Places(KeyPage) \cup Places(KeyPerPage) = {}

C6_Witness ==
    /\ FormattedSome
    /\ overwrote
    /\ last = [NoCalls EXCEPT !.paging = Some([page |-> 0, per_page |-> 0])]

\* C7: the output is the URL, unmodified, followed by zero or more segments
\* "&name=value": each begins with "&" even when the URL has no "?", no "?"
\* is inserted, and keys already in the URL are neither removed nor merged.
C7_AmpersandSegments ==
    pc = "formatted" =>
        /\ WellFormed
        /\ Count(result, "?") = Count(url, "?")
        /\ Count(result, "&") = Count(url, "&") + Len(Segments)

C7_Witness ==
    /\ FormattedSome
    /\ url = UrlBare
    /\ IsSome(arg.val.paging) /\ IsSome(arg.val.sort) /\ IsSome(ArgFilter("location"))

\* C8: each filter field that is set is written percent-encoded, encoded once
\* and never raw ("2017-06-06" is written "2017%2D06%2D06"), while the URL,
\* the paging integers and the sort token are written without encoding.
C8_FilterValuesEncoded ==
    FormattedSome =>
        /\ WellFormed
        /\ \A f \in FilterFields :
              IsSome(ArgFilter(f)) =>
                  LET text == ArgFilter(f).val
                  IN /\ EmitsOnce(FilterKey(f), encode(text))
                     /\ (\E i \in 1..Len(text) : text[i] \notin AlphaNumeric) =>
                            /\ ~EmitsOnce(FilterKey(f), text)
                            /\ ~EmitsOnce(FilterKey(f), encode(encode(text)))
                     /\ text = TextDate =>
                            EmitsOnce(FilterKey(f),
                                <<"2","0","1","7","%","2","D","0","6","%","2","D","0","6">>)
        /\ IsSome(arg.val.paging) =>
              /\ EmitsOnce(KeyPage, Decimal(arg.val.paging.val.page))
              /\ EmitsOnce(KeyPerPage, Decimal(arg.val.paging.val.per_page))
        /\ IsSome(arg.val.sort) => EmitsOnce(KeyOrder, SortToken(arg.val.sort.val))

C8_Witness ==
    /\ FormattedSome
    /\ url = UrlKey
    /\ ArgFilter("min_date") = Some(TextDate)
    /\ ArgFilter("location") = Some(TextSpecial)
    /\ IsSome(arg.val.paging) /\ IsSome(arg.val.sort)

\* C9: the sort is written "&order=asc" for Sort::ASC and "&order=desc" for
\* Sort::DESC, as the last pair of the output, and no order pair is written
\* when sort() was never called.
C9_SortLast ==
    FormattedSome =>
        /\ WellFormed
        /\ IF IsSome(arg.val.sort)
           THEN /\ Places(KeyOrder) = {Len(Segments)}
                /\ Segments[Len(Segments)] =
                      NameOf(KeyOrder) \o <<"=">>
                          \o (IF arg.val.sort.val = "ASC"
                              THEN <<"a","s","c">> ELSE <<"d","e","s","c">>)
           ELSE Places(KeyOrder) = {}
        /\ ~IsSome(last.sort) => Places(KeyOrder) = {}

C9_Witness ==
    /\ FormattedSome
    /\ arg.val.sort = Some("ASC")
    /\ IsSome(arg.val.paging)
    /\ IsSome(ArgFilter("artist_name"))

\* The Options that the last arguments given per field determine.
OptionsOfLast ==
    [paging |-> last.paging,
     filter |-> IF \A f \in FilterFields : ~IsSome(last[f]) THEN None
                ELSE Some([f \in FilterFields |-> last[f]]),
     sort |-> last.sort]

\* A field that the step gives no argument keeps its value in the builder.
FrameStep ==
    /\ last'.paging = last.paging => builder'.paging = builder.paging
    /\ last'.sort = last.sort => builder'.sort = builder.sort
    /\ \A f \in FilterFields :
          last'[f] = last[f] => builder'.filter[f] = builder.filter[f]

\* C10: each builder operation changes only its own field: paging() leaves
\* sort and the filter fields alone, sort() leaves paging and the filter
\* fields alone, a filter setter leaves the other filter fields, paging and
\* sort alone; so fields set in separate filter() calls accumulate, and the
\* built Options depends only on the last value given per field.
C10_Frame ==
    /\ [][/\ FrameStep
          /\ (\E p \in PagingInputs : Paging(p[1], p[2])) =>
                (builder'.sort = builder.sort /\ builder'.filter = builder.filter)
          /\ (\E s \in Sort : SortBy(s)) =>
                (builder'.paging = builder.paging /\ builder'.filter = builder.filter)
          /\ (pc = "building" /\ pc' = "building" /\ filterCalled' # filterCalled) =>
                (builder'.paging = builder.paging /\ builder'.sort = builder.sort)
         ]_vars
    /\ [](IsSome(options) => options.val = OptionsOfLast)

C10_Witness ==
    /\ pc = "built"
    /\ AllSet
    /\ IsSome(options.val.filter)
    /\ \A f \in FilterFields : IsSome(options.val.filter.val[f])

====
